---- MODULE Spec2Model ----
(***************************************************************************)
(* Model of src/plugins/status.rs (Knight Bot system status command).      *)
(*                                                                         *)
(* Text read from a sysfs node is a sequence of one-character strings, so  *)
(* that trimming and parsing are computed character by character.  A u64   *)
(* is its canonical decimal numeral (a sequence of digit characters with   *)
(* no leading zero), which keeps the full 64-bit range without native      *)
(* integers of that width.  Rendered text is an ordinary string.  A        *)
(* character outside ASCII is written as its Rust escape, \u{...}.         *)
(***************************************************************************)
EXTENDS Integers, Sequences, FiniteSets, TLC

VARIABLES
    fs,      \* the platform: sysfs nodes, power-supply directory, memory, kernel
    cpuSrc,  \* the utilization values the platform's CPU counters can yield
    sys,     \* system-info handles, one per invocation (sysinfo::System)
    task,    \* the invocations of knightcmd_status: position and locals
    probe    \* a single read_u64 call: the node it reads and what it returned

vars == <<fs, cpuSrc, sys, task, probe>>

----------------------------------------------------------------------------
(* Characters and numerals                                                 *)

\* char::is_whitespace: the characters of the Unicode property White_Space.
White ==
    {"\t", "\n", "\\u{B}", "\f", "\r", " ", "\\u{85}", "\\u{A0}", "\\u{1680}",
     "\\u{2000}", "\\u{2001}", "\\u{2002}", "\\u{2003}", "\\u{2004}",
     "\\u{2005}", "\\u{2006}", "\\u{2007}", "\\u{2008}", "\\u{2009}",
     "\\u{200A}", "\\u{2028}", "\\u{2029}", "\\u{202F}", "\\u{205F}",
     "\\u{3000}"}

DigitChars == <<"0", "1", "2", "3", "4", "5", "6", "7", "8", "9">>

IsDigit(c) == \E k \in 1..10 : DigitChars[k] = c

DigitValue == [c \in {DigitChars[k] : k \in 1..10} |->
                  (CHOOSE k \in 1..10 : DigitChars[k] = c) - 1]

DigitVal(c) == DigitValue[c]

\* u64::MAX = 18446744073709551615, as a numeral.
U64_MAX == <<"1", "8", "4", "4", "6", "7", "4", "4", "0", "7",
             "3", "7", "0", "9", "5", "5", "1", "6", "1", "5">>

\* The decimal numeral of a natural number (Display for u64).
RECURSIVE Dec(_)
Dec(n) == IF n < 10 THEN <<DigitChars[n + 1]>>
          ELSE Dec(n \div 10) \o <<DigitChars[(n % 10) + 1]>>

\* A digit string without its leading zeros (at least one digit is kept).
RECURSIVE StripZeros(_)
StripZeros(ds) == IF Len(ds) > 1 /\ ds[1] = "0" THEN StripZeros(Tail(ds)) ELSE ds

\* a <= b for digit strings of the same length.
RECURSIVE LexLeq(_, _)
LexLeq(a, b) ==
    \/ a = <<>>
    \/ DigitVal(a[1]) < DigitVal(b[1])
    \/ a[1] = b[1] /\ LexLeq(Tail(a), Tail(b))

\* a <= b for canonical numerals.
NumLeq(a, b) == Len(a) < Len(b) \/ (Len(a) = Len(b) /\ LexLeq(a, b))

\* The string made of the characters of a text.
RECURSIVE Str(_)
Str(s) == IF s = <<>> THEN "" ELSE s[1] \o Str(Tail(s))

\* Option<T>
None == [some |-> FALSE, val |-> <<>>]
Some(v) == [some |-> TRUE, val |-> v]

or_else(o, alt) == IF o.some THEN o ELSE alt
unwrap_or(o, d) == IF o.some THEN o.val ELSE d

----------------------------------------------------------------------------
(* Files                                                                   *)

\* A node of the virtual filesystem: readable with its text, or not
\* (absent, permission denied, not UTF-8).
NoFile == [ok |-> FALSE, data |-> <<>>]
File(text) == [ok |-> TRUE, data |-> text]

\* std::fs::read_to_string(path).ok()
read_to_string(f) == IF f.ok THEN Some(f.data) ELSE None

\* str::trim
RECURSIVE trim_start(_)
trim_start(s) == IF s # <<>> /\ s[1] \in White THEN trim_start(Tail(s)) ELSE s

RECURSIVE trim_end(_)
trim_end(s) == IF s # <<>> /\ s[Len(s)] \in White
               THEN trim_end(SubSeq(s, 1, Len(s) - 1)) ELSE s

trim(s) == trim_end(trim_start(s))

\* str::parse::<u64>().ok(): an optional '+', then one or more decimal
\* digits, accumulated with checked arithmetic (overflow is an error).
parse_u64(s) ==
    LET digits == IF s # <<>> /\ s[1] = "+" THEN Tail(s) ELSE s
    IN  IF digits = <<>> \/ \E k \in 1..Len(digits) : ~IsDigit(digits[k])
        THEN None
        ELSE IF NumLeq(StripZeros(digits), U64_MAX)
             THEN Some(StripZeros(digits))
             ELSE None

\* A faulty variant: the content is parsed without being trimmed.
read_u64_untrimmed(f) ==
    LET v == read_to_string(f) IN IF v.some THEN parse_u64(v.val) ELSE None

\* read_u64: read the node, trim, parse; every failure is None.
read_u64(f) ==
    LET v == read_to_string(f) IN IF v.some THEN parse_u64(trim(v.val)) ELSE None

----------------------------------------------------------------------------
(* Arithmetic on numerals                                                  *)

\* Long division of a digit string by a small divisor, digit by digit:
\* the quotient's digits and the remainder.
RECURSIVE LongDiv(_, _, _, _)
LongDiv(ds, d, rem, acc) ==
    IF ds = <<>> THEN [q |-> StripZeros(acc), r |-> rem]
    ELSE LET cur == rem * 10 + DigitVal(ds[1])
         IN  LongDiv(Tail(ds), d, cur % d, Append(acc, DigitChars[(cur \div d) + 1]))

DivMod(n, d) == LongDiv(n, d, 0, <<"0">>)

\* n + 1 on numerals.
RECURSIVE Incr(_)
Incr(n) ==
    IF n = <<>> THEN <<"1">>
    ELSE IF n[Len(n)] = "9"
         THEN Incr(SubSeq(n, 1, Len(n) - 1)) \o <<"0">>
         ELSE SubSeq(n, 1, Len(n) - 1) \o <<DigitChars[DigitVal(n[Len(n)]) + 2]>>

\* n * m + c on numerals, m and c small.
RECURSIVE MulAddDigits(_, _, _)
MulAddDigits(n, m, c) ==
    IF n = <<>> THEN (IF c = 0 THEN <<>> ELSE Dec(c))
    ELSE LET x == DigitVal(n[Len(n)]) * m + c
         IN  MulAddDigits(SubSeq(n, 1, Len(n) - 1), m, x \div 10)
                 \o <<DigitChars[(x % 10) + 1]>>

MulAdd(n, m, c) == StripZeros(<<"0">> \o MulAddDigits(n, m, c))

----------------------------------------------------------------------------
(* The probes                                                              *)

HZ_PER_MHZ == 1000000

IsOdd(n) == DigitVal(n[Len(n)]) % 2 = 1

RECURSIVE Pow2(_)
Pow2(k) == IF k = 0 THEN 1 ELSE 2 * Pow2(k - 1)

\* 2^52 and 2^53: an f64 holds 53 significant bits.
TWO_52 == <<"4", "5", "0", "3", "5", "9", "9", "6", "2", "7", "3", "7", "0",
            "4", "9", "6">>
TWO_53 == <<"9", "0", "0", "7", "1", "9", "9", "2", "5", "4", "7", "4", "0",
            "9", "9", "2">>

\* n / d rounded to the nearest integer, ties to even (d small).
DivRound(n, d) ==
    LET qr == DivMod(n, d)
        up == 2 * qr.r > d \/ (2 * qr.r = d /\ IsOdd(qr.q))
    IN  IF up THEN Incr(qr.q) ELSE qr.q

\* hz as f64: the nearest value of 53 significant bits, ties to even.  A
\* u64 has at most 64 bits, so at most 11 low bits are rounded away.
as_f64(hz) ==
    LET k == CHOOSE k \in 0..11 :
                 /\ ~NumLeq(TWO_53, DivMod(hz, Pow2(k)).q)
                 /\ k = 0 \/ NumLeq(TWO_53, DivMod(hz, Pow2(k - 1)).q)
    IN  MulAdd(DivRound(hz, Pow2(k)), Pow2(k), 0)

\* n * 2^s on numerals, up to twenty bits at a time.
RECURSIVE Shl(_, _)
Shl(n, s) ==
    IF s = 0 THEN n
    ELSE LET k == IF s > 20 THEN 20 ELSE s
         IN  Shl(MulAdd(n, Pow2(k), 0), s - k)

\* For each scale s, the least v with 2^52 <= v * 2^s / 1000000, that is,
\* 1000000 * 2^52 / 2^s rounded up.  A positive u64 needs a scale between
\* 9 and 72.
F64Threshold ==
    [s \in 0..72 |->
        IF s <= 52 THEN Shl(Dec(HZ_PER_MHZ), 52 - s)
        ELSE Dec((HZ_PER_MHZ + Pow2(s - 52) - 1) \div Pow2(s - 52))]

\* The f64 quotient v / 1_000_000.0 of a positive integer v, as a
\* significand m and a scale s: the quotient is m / 2^s, with m the
\* nearest integer to v * 2^s / 1000000 (ties to even) and s the least
\* scale that gives m its 53 bits.
F64Div(v) ==
    LET s == CHOOSE s \in 0..72 :
                 /\ NumLeq(F64Threshold[s], v)
                 /\ s = 0 \/ ~NumLeq(F64Threshold[s - 1], v)
    IN  [m |-> DivRound(Shl(v, s), HZ_PER_MHZ), s |-> s]

\* m / 2^s rounded to the nearest integer, ties to even, up to twenty bits
\* at a time: `half` is the last bit shifted out, `sticky` whether any bit
\* before it was set.
RECURSIVE RoundShift(_, _, _, _)
RoundShift(m, s, half, sticky) ==
    IF s = 0
    THEN (IF half /\ (sticky \/ IsOdd(m)) THEN Incr(m) ELSE m)
    ELSE LET k  == IF s > 20 THEN 20 ELSE s
             qr == DivMod(m, Pow2(k))
         IN  RoundShift(qr.q, s - k, qr.r >= Pow2(k - 1),
                        sticky \/ half \/ qr.r % Pow2(k - 1) # 0)

\* format!("{:.0}", hz as f64 / 1_000_000.0): hz is converted to f64, the
\* division is made in f64, and the quotient is printed rounded to the
\* nearest integer, ties to even.
Mhz(hz) ==
    LET v == as_f64(hz)
    IN  IF v = <<"0">> THEN "0"
        ELSE LET q == F64Div(v)
             IN  Str(RoundShift(q.m, q.s, FALSE, FALSE))

\* A faulty variant: the load node is tried before gpu_busy.
read_freedreno_gpu_load_first(f) ==
    LET load     == unwrap_or(or_else(read_u64(f.load), read_u64(f.gpu_busy)), <<"0">>)
        freq     == unwrap_or(read_u64(f.cur_freq), <<"0">>)
        max_freq == unwrap_or(read_u64(f.max_freq), <<"0">>)
    IN  Some(Str(load) \o "% | " \o Mhz(freq) \o "/" \o Mhz(max_freq) \o " MHz")

\* read_freedreno_gpu: load from gpu_busy, else from load, else 0; the two
\* frequencies each from their own node, else 0; always Some.
read_freedreno_gpu(f) ==
    LET load     == unwrap_or(or_else(read_u64(f.gpu_busy), read_u64(f.load)), <<"0">>)
        freq     == unwrap_or(read_u64(f.cur_freq), <<"0">>)
        max_freq == unwrap_or(read_u64(f.max_freq), <<"0">>)
    IN  Some(Str(load) \o "% | " \o Mhz(freq) \o "/" \o Mhz(max_freq) \o " MHz")

\* The power-supply directory: listable or not, and its entries.  An entry
\* is a directory with its capacity node, or a position at which the
\* listing fails (err).
ErrEntry == [err |-> TRUE, capacity |-> NoFile]
Entry(cap) == [err |-> FALSE, capacity |-> cap]

NoDir == [ok |-> FALSE, entries |-> <<>>]
Dir(es) == [ok |-> TRUE, entries |-> es]

\* The orders in which a listing of n entries may come.
Orders(n) == {p \in [1..n -> 1..n] : \A a, b \in 1..n : a # b => p[a] # p[b]}

\* std::fs::read_dir(base): Err, or the entries in the order the platform
\* yields them on this call.  The order is platform and filesystem
\* dependent and nothing fixes it from one call to the next, so each call
\* draws one.  The iterator yields the error of the first position the
\* listing fails on and ends there.
RECURSIVE until_error(_)
until_error(es) ==
    IF es = <<>> THEN <<>>
    ELSE IF es[1].err THEN <<es[1]>>
    ELSE <<es[1]>> \o until_error(Tail(es))

read_dir(d, order) ==
    IF d.ok
    THEN Some(until_error([k \in 1..Len(d.entries) |-> d.entries[order[k]]]))
    ELSE None

\* A faulty variant of the loop: the last entry whose capacity reads.
RECURSIVE last_capacity(_)
last_capacity(es) ==
    IF es = <<>> THEN "N/A"
    ELSE LET e == es[Len(es)]
             v == read_to_string(e.capacity)
         IN  IF ~e.err /\ v.some THEN Str(trim(v.val)) \o "%"
             ELSE last_capacity(SubSeq(es, 1, Len(es) - 1))

\* The loop over entries.flatten(): the first entry whose capacity reads.
RECURSIVE first_capacity(_)
first_capacity(es) ==
    IF es = <<>> THEN "N/A"
    ELSE LET v == read_to_string(es[1].capacity)
         IN  IF ~es[1].err /\ v.some THEN Str(trim(v.val)) \o "%"
             ELSE first_capacity(Tail(es))

\* A faulty variant: the probe built on last_capacity.
read_battery_percentage_last(listing) ==
    IF listing.some THEN last_capacity(listing.val) ELSE "N/A"

\* read_battery_percentage, given what read_dir returned.
read_battery_percentage(listing) ==
    IF listing.some THEN first_capacity(listing.val) ELSE "N/A"

\* System::kernel_version()
NoKernel == [some |-> FALSE, val |-> ""]

----------------------------------------------------------------------------
(* The report                                                              *)

BYTES_PER_MIB == 1048576

\* A faulty variant: the division rounds up.
mib_rounded_up(bytes) ==
    LET qr == DivMod(bytes, BYTES_PER_MIB) IN IF qr.r = 0 THEN qr.q ELSE Incr(qr.q)

\* bytes / 1_048_576 on u64.
mib(bytes) == DivMod(bytes, BYTES_PER_MIB).q

\* format!("{:.1}", x) of a value held in tenths.
Fixed1(tenths) == Str(Dec(tenths \div 10)) \o "." \o Str(Dec(tenths % 10))

\* The first two lines of the report: U+1F5A5, a space and the title, then
\* seventeen U+2500.
TitleLine == "\\u{1F5A5} <b>System Status</b>"

RuleLine ==
    "\\u{2500}\\u{2500}\\u{2500}\\u{2500}\\u{2500}\\u{2500}" \o
    "\\u{2500}\\u{2500}\\u{2500}\\u{2500}\\u{2500}\\u{2500}" \o
    "\\u{2500}\\u{2500}\\u{2500}\\u{2500}\\u{2500}"

\* The format! of knightcmd_status: the lines of the report, in order.
format_report(cpu_usage, used_mem, total_mem, gpu, battery, kernel) ==
    << TitleLine,
       RuleLine,
       "<b>CPU:</b> " \o Fixed1(cpu_usage) \o "%",
       "<b>Memory:</b> " \o Str(used_mem) \o " / " \o Str(total_mem) \o " MiB",
       "<b>GPU (Adreno 640):</b> " \o gpu,
       "<b>Battery:</b> " \o battery,
       "<b>Kernel:</b> " \o kernel >>

----------------------------------------------------------------------------
(* The system-info handle and the CPU sampler                              *)

\* A faulty variant: the warm-up counted among the rounds.
SamplesPlusWarmup == 5 + 1

\* let samples = 5
samples == 5

\* System::new_all(): a handle refreshed once in full, memory included.
new_all(platform, v) ==
    [cpu |-> v, total_memory |-> platform.total_memory,
     used_memory |-> platform.used_memory]

\* sys.refresh_cpu(): the counters are read and the global utilization
\* since the handle's previous refresh is stored in the handle.
refresh_cpu(s, v) == [s EXCEPT !.cpu = v]

\* sys.global_cpu_info().cpu_usage()
global_cpu_usage(s) == s.cpu

NoSys == [cpu |-> 0, total_memory |-> <<"0">>, used_memory |-> <<"0">>]

\* A faulty variant: one handle shared by all invocations.
handle_shared(t) == 1

\* The handle an invocation works on: `let mut sys`, a local of its own.
handle(t) == t

\* total / samples as f32, held in tenths of a percent.  Readings are whole
\* percents, so the sum is exact and the mean has one decimal.
mean(total) == (total * 10) \div samples

\* The events of an invocation, in program order (an observer's log).
WarmupEvents == <<"refresh", "suspend">>

\* A faulty variant: the battery probe before the GPU probe.
AssembleEventsBatteryFirst == <<"memory", "battery", "gpu", "kernel", "format", "reply">>

\* Lines 25-51 after the sampler has returned.
AssembleEvents == <<"memory", "gpu", "battery", "kernel", "format", "reply">>

NewTask ==
    [pc |-> "start", i |-> 0, total |-> 0, fed |-> <<>>, log |-> <<>>,
     listing |-> None, cpu_usage |-> 0, used_mem |-> <<"0">>,
     total_mem |-> <<"0">>, gpu |-> "", battery |-> "", kernel |-> "",
     text |-> <<>>, sent |-> <<>>, delivery |-> "none", result |-> "pending"]

----------------------------------------------------------------------------
(* knightcmd_status, one action per run between two suspension points      *)

\* Lines 19 and 61-62: the handle is created, the warm-up refresh is made
\* and the invocation sleeps.
Start(t) ==
    /\ task[t].pc = "start"
    /\ \E v0 \in cpuSrc, w \in cpuSrc :
        /\ sys' = [sys EXCEPT ![handle(t)] = refresh_cpu(new_all(fs, v0), w)]
        /\ task' = [task EXCEPT ![t] =
                      [@ EXCEPT !.pc = "warmup_sleep",
                                !.fed = <<w>>,
                                !.log = WarmupEvents]]
    /\ UNCHANGED <<fs, cpuSrc, probe>>

\* A faulty variant: the warm-up reading is accumulated too.
WakeWarmupAccumulates(t) ==
    /\ task[t].pc = "warmup_sleep"
    /\ \E v \in cpuSrc :
        /\ sys' = [sys EXCEPT ![handle(t)] = refresh_cpu(@, v)]
        /\ task' = [task EXCEPT ![t] =
                      [@ EXCEPT !.pc = "sample_sleep",
                                !.total = @ + global_cpu_usage(sys[handle(t)]),
                                !.fed = Append(@, v),
                                !.log = @ \o <<"refresh", "suspend">>]]
    /\ UNCHANGED <<fs, cpuSrc, probe>>

\* Lines 64-66, first round: the warm-up sleep is over, its reading is not
\* taken; refresh and sleep.
WakeWarmup(t) ==
    /\ task[t].pc = "warmup_sleep"
    /\ \E v \in cpuSrc :
        /\ sys' = [sys EXCEPT ![handle(t)] = refresh_cpu(@, v)]
        /\ task' = [task EXCEPT ![t] =
                      [@ EXCEPT !.pc = "sample_sleep",
                                !.fed = Append(@, v),
                                !.log = @ \o <<"refresh", "suspend">>]]
    /\ UNCHANGED <<fs, cpuSrc, probe>>

\* Lines 67 and 65-66: a sampling sleep is over and rounds remain; the
\* reading is accumulated, then refresh and sleep.
WakeSample(t) ==
    /\ task[t].pc = "sample_sleep"
    /\ task[t].i + 1 < samples
    /\ \E v \in cpuSrc :
        /\ sys' = [sys EXCEPT ![handle(t)] = refresh_cpu(@, v)]
        /\ task' = [task EXCEPT ![t] =
                      [@ EXCEPT !.i = @ + 1,
                                !.total = @ + global_cpu_usage(sys[handle(t)]),
                                !.fed = Append(@, v),
                                !.log = @ \o <<"read", "refresh", "suspend">>]]
    /\ UNCHANGED <<fs, cpuSrc, probe>>

\* Lines 67-70 and 25-51: the last sampling sleep is over; the reading is
\* accumulated, the mean returned, memory, GPU, battery and kernel read,
\* the report formatted and handed to message.reply.
WakeLast(t) ==
    /\ task[t].pc = "sample_sleep"
    /\ task[t].i + 1 = samples
    /\ \E order \in Orders(Len(fs.power_supply.entries)) :
        LET total     == task[t].total + global_cpu_usage(sys[handle(t)])
            avg       == mean(total)
            total_mem == mib(sys[handle(t)].total_memory)
            used_mem  == mib(sys[handle(t)].used_memory)
            gpu       == unwrap_or(read_freedreno_gpu(fs), "N/A")
            listing   == read_dir(fs.power_supply, order)
            battery   == read_battery_percentage(listing)
            kernel    == unwrap_or(fs.kernel, "unknown")
            text      == format_report(avg, used_mem, total_mem, gpu, battery, kernel)
        IN  task' = [task EXCEPT ![t] =
                       [@ EXCEPT !.pc = "reply",
                                 !.i = @ + 1,
                                 !.total = total,
                                 !.cpu_usage = avg,
                                 !.total_mem = total_mem,
                                 !.used_mem = used_mem,
                                 !.gpu = gpu,
                                 !.listing = listing,
                                 !.battery = battery,
                                 !.kernel = kernel,
                                 !.text = text,
                                 !.sent = Append(@, text),
                                 !.log = @ \o <<"read">> \o AssembleEvents]]
    /\ UNCHANGED <<fs, cpuSrc, sys, probe>>

\* A faulty variant: a delivery error is dropped.
reply_result_swallowed(delivered) == "Ok"

\* What `message.reply(..).await?; Ok(())` returns for a delivery outcome.
reply_result(delivered) == IF delivered THEN "Ok" ELSE "Err"

\* Lines 51-52: the transport answers; its error, if any, is returned.
Deliver(t) ==
    /\ task[t].pc = "reply"
    /\ \E delivered \in BOOLEAN :
        task' = [task EXCEPT ![t] =
                   [@ EXCEPT !.pc = "done",
                             !.delivery = IF delivered THEN "sent" ELSE "failed",
                             !.result = reply_result(delivered)]]
    /\ UNCHANGED <<fs, cpuSrc, sys, probe>>

Next ==
    \/ \E t \in DOMAIN task : Start(t)
    \/ \E t \in DOMAIN task : WakeWarmup(t)
    \/ \E t \in DOMAIN task : WakeSample(t)
    \/ \E t \in DOMAIN task : WakeLast(t)
    \/ \E t \in DOMAIN task : Deliver(t)

NoProbe == [file |-> NoFile, done |-> TRUE, out |-> None]

\* The invocations 1..n on a platform drawn from `platforms`, with CPU
\* readings drawn from `readings`.
InitWith(platforms, readings, n) ==
    /\ fs \in platforms
    /\ cpuSrc = readings
    /\ sys = [h \in 1..n |-> NoSys]
    /\ task = [t \in 1..n |-> NewTask]
    /\ probe = NoProbe

----------------------------------------------------------------------------
(* Bounds of the inputs                                                    *)

MaxLen == 3

RECURSIVE Texts(_, _)
Texts(alphabet, n) ==
    IF n = 0 THEN {<<>>}
    ELSE LET shorter == Texts(alphabet, n - 1)
         IN  shorter \cup {Append(t, c) : t \in shorter, c \in alphabet}

ReaderAlphabet == {" ", "\n", "\r", "+", "-", "0", "7", "x"}

\* Contents a node can hold in the read_u64 harness: every text over the
\* alphabet up to MaxLen characters, and longer ones at the 64-bit edge.
ReaderTexts ==
    Texts(ReaderAlphabet, MaxLen)
        \cup { <<" ", " ", "4", "2", "\n">>,
               <<"4", "2", "\r", "\n">>,
               <<"\f", "4", "2">>,
               <<"\\u{A0}", "\\u{B}", "4", "2", "\\u{2028}", "\\u{85}">>,
               <<"4", "\r", "2">>,
               U64_MAX,
               <<"\t">> \o U64_MAX \o <<"\n">>,
               SubSeq(U64_MAX, 1, 19) \o <<"6">>,
               <<"0", "0">> \o U64_MAX,
               U64_MAX \o <<"0">>,
               <<"8", "0", "0", "0", "0", "0", "0", "0", "0">> }

ReaderFiles == {NoFile} \cup {File(t) : t \in ReaderTexts}

----------------------------------------------------------------------------
(* read_u64 on its own                                                     *)

\* A Xiaomi Raphael at rest: the platform of the specifications that vary
\* something else.
PlainFs ==
    [gpu_busy |-> NoFile,
     load |-> File(<<"3", "7", "\n">>),
     cur_freq |-> File(<<"2", "5", "7", "0", "0", "0", "0", "0", "0", "\n">>),
     max_freq |-> File(<<"5", "8", "5", "0", "0", "0", "0", "0", "0", "\n">>),
     power_supply |-> Dir(<<Entry(File(<<"8", "5", "\n">>))>>),
     total_memory |-> MulAdd(Dec(8192), BYTES_PER_MIB, 0),
     used_memory |-> MulAdd(Dec(4096), BYTES_PER_MIB, 0),
     kernel |-> [some |-> TRUE, val |-> "6.6.0-sm8150"]]

InitReader ==
    /\ fs = PlainFs
    /\ cpuSrc = {}
    /\ sys = <<>>
    /\ task = <<>>
    /\ probe \in [file : ReaderFiles, done : {FALSE}, out : {None}]

CallReadU64 ==
    /\ ~probe.done
    /\ probe' = [probe EXCEPT !.done = TRUE, !.out = read_u64(probe.file)]
    /\ UNCHANGED <<fs, cpuSrc, sys, task>>

NextReader == CallReadU64

SpecReader == InitReader /\ [][NextReader]_vars

----------------------------------------------------------------------------
(* One invocation on every combination of failing nodes                    *)

Text37 == <<"3", "7", "\n">>
Text85 == <<"8", "5", "\n">>

\* A node is absent, holds text that is no number, or holds a number.
NodeStates == {NoFile, File(<<"x">>), File(Text37)}

DirStates == {NoDir, Dir(<<>>), Dir(<<ErrEntry>>), Dir(<<Entry(NoFile)>>),
              Dir(<<ErrEntry, Entry(File(Text85))>>),
              Dir(<<Entry(File(Text85))>>)}

KernelStates == {NoKernel, PlainFs.kernel}

DegradedPlatforms ==
    [gpu_busy : NodeStates, load : NodeStates, cur_freq : NodeStates,
     max_freq : NodeStates, power_supply : DirStates,
     total_memory : {PlainFs.total_memory}, used_memory : {PlainFs.used_memory},
     kernel : KernelStates]

Init == InitWith(DegradedPlatforms, {50}, 1)

Spec == Init /\ [][Next]_vars

----------------------------------------------------------------------------
(* One invocation, every sequence of CPU readings                          *)

CpuReadings == {0, 33, 100}

InitCpu == InitWith({PlainFs}, CpuReadings, 1)

SpecCpu == InitCpu /\ [][Next]_vars

----------------------------------------------------------------------------
(* One invocation, the GPU nodes varied                                    *)

LoadFiles ==
    {NoFile, File(<<"x">>), File(Text37), File(<<"+", "1", "2">>),
     File(<<"5", "\r", "\n">>)}

\* Frequencies in Hz: ordinary ones, ties, and ones above 2^53 that the
\* conversion to f64 rounds.
FreqFiles ==
    {NoFile, File(<<"x">>),
     File(<<"8", "0", "0", "0", "0", "0", "0", "0", "0">>),
     File(<<" ", "2", "5", "0", "0", "0", "0", "0", "\n">>),
     File(<<"1", "7", "1", "7", "9", "8", "6", "9", "1", "8", "4", "5", "0",
            "0", "0", "0", "1">>),
     File(<<"1", "7", "1", "7", "9", "8", "6", "9", "1", "8", "5", "4", "9",
            "9", "9", "9", "9">>),
     File(U64_MAX)}

GpuPlatforms ==
    {[[[[PlainFs EXCEPT !.gpu_busy = a] EXCEPT !.load = b]
          EXCEPT !.cur_freq = c] EXCEPT !.max_freq = d] :
        a \in LoadFiles, b \in LoadFiles, c \in FreqFiles, d \in FreqFiles}

InitGpu == InitWith(GpuPlatforms, {50}, 1)

SpecGpu == InitGpu /\ [][Next]_vars

----------------------------------------------------------------------------
(* One invocation, the power-supply directory varied                       *)

MaxEntries == 3

CapacityFiles ==
    {NoFile, File(Text85), File(<<"\r", "\n", "4", "2", "\r", "\n">>), File(<<>>)}

EntryStates == {ErrEntry} \cup {Entry(c) : c \in CapacityFiles}

RECURSIVE Listings(_)
Listings(n) ==
    IF n = 0 THEN {<<>>}
    ELSE LET shorter == Listings(n - 1)
         IN  shorter \cup {Append(es, e) : es \in shorter, e \in EntryStates}

BatteryPlatforms ==
    {[PlainFs EXCEPT !.power_supply = d] :
        d \in {NoDir} \cup {Dir(es) : es \in Listings(MaxEntries)}}

InitBattery == InitWith(BatteryPlatforms, {50}, 1)

SpecBattery == InitBattery /\ [][Next]_vars

----------------------------------------------------------------------------
(* One invocation, the memory counters varied                              *)

\* Byte counts are q * 1048576 + r for these q and r, up to u64::MAX.
MemQuotients ==
    {Dec(0), Dec(1), Dec(4096), Dec(8192),
     <<"1", "7", "5", "9", "2", "1", "8", "6", "0", "4", "4", "4", "1", "5">>}

MemRemainders == {0, 1, BYTES_PER_MIB - 1}

MemValues == {MulAdd(q, BYTES_PER_MIB, r) : q \in MemQuotients, r \in MemRemainders}

MemPlatforms ==
    {[[PlainFs EXCEPT !.used_memory = u] EXCEPT !.total_memory = m] :
        u \in MemValues, m \in MemValues}

InitMem == InitWith(MemPlatforms, {50}, 1)

SpecMem == InitMem /\ [][Next]_vars

----------------------------------------------------------------------------
(* Two invocations running concurrently on an unchanged platform           *)

TwoBatteries == Dir(<<Entry(File(Text85)), Entry(File(<<"4", "2", "\n">>))>>)

\* The GPU has no frequency nodes here: its line is "37% | 0/0 MHz".
NoFreqFs == [[PlainFs EXCEPT !.cur_freq = NoFile] EXCEPT !.max_freq = NoFile]

InitConc == InitWith({NoFreqFs}, {0, 100}, 2)

SpecConc == InitConc /\ [][Next]_vars

----------------------------------------------------------------------------
(* Two invocations on an unchanged platform, the directory varied          *)

RepeatPlatforms ==
    {[PlainFs EXCEPT !.power_supply = d] :
        d \in {NoDir, Dir(<<>>), PlainFs.power_supply, TwoBatteries}}

InitRepeat == InitWith(RepeatPlatforms, {50}, 2)

SpecRepeat == InitRepeat /\ [][Next]_vars

----------------------------------------------------------------------------
(* Properties                                                              *)

Returned(t) == task[t].pc \in {"reply", "done"}

RECURSIVE SumSeq(_)
SumSeq(s) == IF s = <<>> THEN 0 ELSE s[1] + SumSeq(Tail(s))

\* The text between the leading and the trailing whitespace of a text.
CoreOf(text) ==
    CHOOSE c \in {SubSeq(text, a, b) : a \in 1..(Len(text) + 1), b \in 0..Len(text)} :
        \E a \in 1..(Len(text) + 1), b \in 0..Len(text) :
            /\ c = SubSeq(text, a, b)
            /\ a <= b + 1
            /\ \A k \in 1..(a - 1) : text[k] \in White
            /\ \A k \in (b + 1)..Len(text) : text[k] \in White
            /\ c # <<>> => (c[1] \notin White /\ c[Len(c)] \notin White)

IsNumeral(t) == t # <<>> /\ \A k \in 1..Len(t) : IsDigit(t[k])

InU64(t) == NumLeq(StripZeros(t), U64_MAX)

\* A non-negative integer in the 64-bit range, as Rust writes one: decimal
\* digits, which a '+' may precede.
ValidU64(t) ==
    \/ IsNumeral(t) /\ InU64(t)
    \/ t # <<>> /\ t[1] = "+" /\ IsNumeral(Tail(t)) /\ InU64(Tail(t))

\* C6: read_u64 always returns a value: None for a node that cannot be
\* read or whose trimmed content is no non-negative integer of the 64-bit
\* range, Some(n) for the numeral n between whitespace ("  42\n" gives 42).
ReadU64Total ==
    probe.done =>
        LET f == probe.file
            c == CoreOf(f.data)
        IN  /\ probe.out.some \in BOOLEAN
            /\ ~f.ok => probe.out = None
            /\ (f.ok /\ ~ValidU64(c)) => probe.out = None
            /\ (f.ok /\ IsNumeral(c) /\ InU64(c)) => probe.out = Some(StripZeros(c))
            /\ f = File(<<" ", " ", "4", "2", "\n">>) => probe.out = Some(Dec(42))

ReadU64Witness ==
    /\ probe.done
    /\ probe.file = File(<<" ", " ", "4", "2", "\n">>)
    /\ probe.out = Some(<<"4", "2">>)

\* C1: whatever nodes are missing, unreadable or unparseable, an invocation
\* hands one fully rendered report to delivery, exactly once, and returns an
\* error exactly when that delivery fails.
DeliveredOnceTotal ==
    \A t \in DOMAIN task :
        /\ Len(task[t].sent) = (IF Returned(t) THEN 1 ELSE 0)
        /\ Returned(t) =>
            /\ task[t].sent[1] = task[t].text
            /\ Len(task[t].text) = 7
            /\ task[t].gpu # "" /\ task[t].battery # "" /\ task[t].kernel # ""
        /\ task[t].pc # "done" => task[t].result = "pending"
        /\ task[t].pc = "done" =>
            /\ task[t].delivery \in {"sent", "failed"}
            /\ task[t].result = "Err" <=> task[t].delivery = "failed"
            /\ task[t].result = "Ok" <=> task[t].delivery = "sent"

DeliveredOnceWitness ==
    \E t \in DOMAIN task :
        /\ task[t].pc = "done"
        /\ task[t].result = "Ok"
        /\ task[t].delivery = "sent"
        /\ Len(task[t].sent) = 1
        /\ fs.gpu_busy = NoFile /\ fs.load = File(<<"x">>)
        /\ fs.cur_freq = NoFile /\ fs.max_freq = File(<<"x">>)
        /\ fs.power_supply = NoDir
        /\ fs.kernel = NoKernel
        /\ task[t].gpu = "0% | 0/0 MHz"
        /\ task[t].battery = "N/A"
        /\ task[t].kernel = "unknown"

\* C2: with readings w for the warm-up refresh and a, b, c, d, e for the
\* five sampling refreshes, read_cpu_avg returns (a+b+c+d+e)/5 (here in
\* tenths of a percent), whatever w is.
CpuMeanOfFive ==
    \A t \in DOMAIN task :
        Returned(t) =>
            /\ Len(task[t].fed) = 6
            /\ task[t].cpu_usage * 5 = 10 * SumSeq(SubSeq(task[t].fed, 2, 6))

CpuMeanWitness ==
    \E t \in DOMAIN task :
        /\ Returned(t)
        /\ task[t].fed = <<100, 0, 33, 0, 100, 0>>
        /\ task[t].cpu_usage = 266
        /\ task[t].text[3] = "<b>CPU:</b> 26.6%"

\* The events of an invocation up to the hand-over to delivery.
SamplerLog ==
    <<"refresh", "suspend",
      "refresh", "suspend", "read",
      "refresh", "suspend", "read",
      "refresh", "suspend", "read",
      "refresh", "suspend", "read",
      "refresh", "suspend", "read">>

Count(s, e) == Cardinality({k \in 1..Len(s) : s[k] = e})

IsPrefix(a, b) == Len(a) <= Len(b) /\ SubSeq(b, 1, Len(a)) = a

FirstIndex(s, e) == CHOOSE k \in 1..Len(s) : s[k] = e /\ \A j \in 1..(k - 1) : s[j] # e

\* C9: up to the hand-over to delivery an invocation suspends six times,
\* all in the sampler: refresh, suspend for the warm-up, then five rounds of
\* refresh, suspend, read; each reading follows the suspension after its own
\* refresh, and five readings are accumulated.
SixSuspensions ==
    \A t \in DOMAIN task :
        LET log == task[t].log
        IN  /\ IsPrefix(log, SamplerLog) \/ IsPrefix(SamplerLog, log)
            /\ task[t].pc \in {"warmup_sleep", "sample_sleep"}
                   <=> (log # <<>> /\ log[Len(log)] = "suspend")
            /\ \A k \in 1..Len(log) :
                   log[k] = "read" => (k > 2 /\ log[k - 1] = "suspend"
                                             /\ log[k - 2] = "refresh")
            /\ task[t].i = Count(log, "read")
            /\ Returned(t) =>
                /\ IsPrefix(SamplerLog, log)
                /\ Count(log, "suspend") = 6
                /\ Count(log, "refresh") = 6
                /\ Count(log, "read") = 5
                /\ log[Len(log)] = "reply"

SixSuspensionsWitness ==
    \E t \in DOMAIN task :
        /\ task[t].pc = "reply"
        /\ Count(task[t].log, "suspend") = 6
        /\ Count(task[t].log, "read") = 5
        /\ task[t].i = 5

\* C10: the sampler is finished before a GPU or battery node is read, the
\* GPU probe comes before the battery probe, and nothing suspends between
\* the first probe and the formatting of the report.
ProbesAfterSampler ==
    \A t \in DOMAIN task :
        LET log == task[t].log
        IN  /\ ~Returned(t) => (Count(log, "gpu") = 0 /\ Count(log, "battery") = 0
                                  /\ Count(log, "format") = 0)
            /\ Returned(t) =>
                LET g == FirstIndex(log, "gpu")
                    b == FirstIndex(log, "battery")
                    f == FirstIndex(log, "format")
                IN  /\ Count(log, "gpu") = 1 /\ Count(log, "battery") = 1
                    /\ Count(log, "format") = 1
                    /\ g < b /\ b < f
                    /\ \A k \in 1..Len(log) :
                           log[k] \in {"refresh", "suspend", "read"} => k < g
                    /\ Count(SubSeq(log, 1, g), "read") = samples

ProbesAfterSamplerWitness ==
    \E t \in DOMAIN task :
        /\ task[t].pc = "done"
        /\ task[t].gpu = "37% | 257/585 MHz"
        /\ task[t].battery = "85%"
        /\ FirstIndex(task[t].log, "gpu") = Len(SamplerLog) + 2
        /\ FirstIndex(task[t].log, "battery") = Len(SamplerLog) + 3

\* C3: for every availability of the four GPU nodes the probe returns a
\* composite, never "N/A": the load is gpu_busy's value if that reads as an
\* integer, else load's if that does, else 0; each frequency is its own
\* node's value, or 0 when that node fails, whatever the load was.
GpuComposite ==
    \A t \in DOMAIN task :
        Returned(t) =>
            LET busy == read_u64(fs.gpu_busy)
                alt  == read_u64(fs.load)
                cur  == read_u64(fs.cur_freq)
                max  == read_u64(fs.max_freq)
                load == IF busy.some THEN busy.val
                        ELSE IF alt.some THEN alt.val ELSE Dec(0)
                freq == IF cur.some THEN cur.val ELSE Dec(0)
                top  == IF max.some THEN max.val ELSE Dec(0)
            IN  /\ task[t].gpu # "N/A"
                /\ task[t].gpu =
                       Str(load) \o "% | " \o Mhz(freq) \o "/" \o Mhz(top) \o " MHz"
                /\ task[t].text[5] = "<b>GPU (Adreno 640):</b> " \o task[t].gpu
                /\ ( /\ fs.gpu_busy = File(<<"5", "\r", "\n">>)
                     /\ fs.cur_freq = File(<<"1", "7", "1", "7", "9", "8", "6", "9",
                                             "1", "8", "4", "5", "0", "0", "0", "0",
                                             "1">>)
                     /\ fs.max_freq = File(U64_MAX) )
                   => task[t].gpu = "5% | 17179869184/18446744073710 MHz"

GpuCompositeWitness ==
    \E t \in DOMAIN task :
        /\ Returned(t)
        /\ fs.gpu_busy = NoFile
        /\ fs.load = File(Text37)
        /\ fs.cur_freq = File(<<"8", "0", "0", "0", "0", "0", "0", "0", "0">>)
        /\ fs.max_freq = File(<<"x">>)
        /\ task[t].gpu = "37% | 800/0 MHz"

Readable(e) == ~e.err /\ e.capacity.ok

YieldedHits(l) == {k \in 1..Len(l.val) : Readable(l.val[k])}

\* What the probe returns when an entry it is given has a readable
\* capacity node: that of the first such entry, trimmed, with '%'.
FirstHitReturned(t) ==
    LET l    == task[t].listing
        hits == YieldedHits(l)
    IN  (l.some /\ hits # {}) =>
            LET k == CHOOSE k \in hits : \A j \in hits : k <= j
            IN  task[t].battery = Str(CoreOf(l.val[k].capacity.data)) \o "%"

\* C4, as stated: the battery probe returns the trimmed capacity plus '%' of
\* the first entry, in the order the listing came, whose capacity node
\* reads, passing over the entries before it; it returns "N/A" exactly when
\* the directory cannot be listed or no entry has a readable capacity node.
BatteryFirstReadable ==
    \A t \in DOMAIN task :
        Returned(t) =>
            LET d == fs.power_supply
            IN  /\ FirstHitReturned(t)
                /\ task[t].battery = "N/A" <=>
                       (~d.ok \/ \A k \in 1..Len(d.entries) : ~Readable(d.entries[k]))

\* C4, amended: the battery probe returns the trimmed capacity plus '%' of
\* the first entry, in the order the listing came, whose capacity node
\* reads, passing over the entries before it; the enumeration ends at the
\* first position the listing fails on; the probe returns "N/A" exactly
\* when the directory cannot be listed or the enumeration yields no entry
\* with a readable capacity node before it ends.
BatteryFirstYielded ==
    \A t \in DOMAIN task :
        Returned(t) =>
            LET l == task[t].listing
                d == fs.power_supply
            IN  /\ l.some <=> d.ok
                /\ l.some =>
                    /\ \A k \in 1..(Len(l.val) - 1) : ~l.val[k].err
                    /\ \A e \in EntryStates : Count(l.val, e) <= Count(d.entries, e)
                    /\ (\A k \in 1..Len(l.val) : ~l.val[k].err)
                           => Len(l.val) = Len(d.entries)
                /\ FirstHitReturned(t)
                /\ task[t].battery = "N/A" <=> (~l.some \/ YieldedHits(l) = {})

BatteryWitness ==
    \E t \in DOMAIN task :
        /\ Returned(t)
        /\ fs.power_supply.entries
               = <<ErrEntry, Entry(NoFile), Entry(File(Text85))>>
        /\ task[t].listing = Some(<<Entry(NoFile), Entry(File(Text85)), ErrEntry>>)
        /\ task[t].battery = "85%"

\* C7: the memory line shows used, then total, each the byte count of the
\* snapshot divided by 1048576 and rounded down; 4294967296 used of
\* 8589934592 shows as "4096 / 8192 MiB".
MemoryLineFloor ==
    \A t \in DOMAIN task :
        Returned(t) =>
            /\ \A qu \in MemQuotients, qt \in MemQuotients :
               \A ru \in MemRemainders, rt \in MemRemainders :
                   ( /\ sys[handle(t)].used_memory = MulAdd(qu, BYTES_PER_MIB, ru)
                     /\ sys[handle(t)].total_memory = MulAdd(qt, BYTES_PER_MIB, rt) )
                   => task[t].text[4] =
                          "<b>Memory:</b> " \o Str(qu) \o " / " \o Str(qt) \o " MiB"
            /\ ( /\ sys[handle(t)].used_memory =
                        <<"4", "2", "9", "4", "9", "6", "7", "2", "9", "6">>
                 /\ sys[handle(t)].total_memory =
                        <<"8", "5", "8", "9", "9", "3", "4", "5", "9", "2">> )
               => task[t].text[4] = "<b>Memory:</b> 4096 / 8192 MiB"

MemoryLineWitness ==
    \E t \in DOMAIN task :
        /\ Returned(t)
        /\ sys[handle(t)].used_memory = MulAdd(Dec(4096), BYTES_PER_MIB, BYTES_PER_MIB - 1)
        /\ sys[handle(t)].total_memory =
               <<"8", "5", "8", "9", "9", "3", "4", "5", "9", "2">>
        /\ task[t].text[4] = "<b>Memory:</b> 4096 / 8192 MiB"

\* C8: invocations interleaved at the sampler's suspension points each
\* refresh and read their own handle and their own accumulator, so each
\* returns the mean of the five readings of its own handle.
OwnHandleOnly ==
    \A t \in DOMAIN task :
        /\ \A u \in DOMAIN task : u # t => handle(u) # handle(t)
        /\ task[t].pc \in {"warmup_sleep", "sample_sleep"} =>
            /\ global_cpu_usage(sys[handle(t)]) = task[t].fed[Len(task[t].fed)]
            /\ task[t].total = SumSeq(SubSeq(task[t].fed, 2, task[t].i + 1))
        /\ Returned(t) =>
            /\ task[t].total = SumSeq(SubSeq(task[t].fed, 2, 6))
            /\ task[t].cpu_usage * samples = 10 * task[t].total

OwnHandleWitness ==
    /\ task[1].pc = "sample_sleep" /\ task[1].i = 2
    /\ task[2].pc = "sample_sleep" /\ task[2].i = 3
    /\ task[1].fed = <<0, 100, 100, 100>>
    /\ task[2].fed = <<100, 0, 0, 0, 0>>
    /\ task[1].total = 200
    /\ task[2].total = 0

\* C5: invocations on unchanged nodes all show the same GPU summary and the
\* same battery summary.
SummariesStable ==
    \A t \in DOMAIN task, u \in DOMAIN task :
        (Returned(t) /\ Returned(u)) =>
            /\ task[t].gpu = task[u].gpu
            /\ task[t].battery = task[u].battery

====
